---- MODULE Spec2Model ----
(***************************************************************************)
(* A model of the shallowclone crate.                                      *)
(*                                                                         *)
(* Part I  (specification Spec): the covariant borrow-or-own containers    *)
(* CoCow and CoCowSlice of shallowclone/src/cows.rs over a small heap of   *)
(* payload cells.  A cell holds a String/Vec payload ("data") or a         *)
(* container ("cow"); an Owned container owns the cell of its payload, a   *)
(* Borrowed container refers to a cell somebody else owns.                 *)
(*                                                                         *)
(* Part II (specification DeriveSpec): the derive macro of                 *)
(* shallowclone-derive/src: a declaration is parsed piece by piece, then   *)
(* derive() runs on it for one DeriveType.  Token streams are sequences of *)
(* strings.                                                                *)
(*                                                                         *)
(* Part III (specification RoundTripSpec): the code generated for the      *)
(* structs of the crate's tests, run on values.                            *)
(***************************************************************************)
EXTENDS Integers, Sequences, FiniteSets, TLC

VARIABLES mem, locals, last, dups, detached,    \* Part I
          decl, invoked, pc, diags, gen,      \* Part II
          rt                                      \* Part III

cowVars == <<mem, locals, last, dups, detached>>
deriveVars == <<decl, invoked, pc, diags, gen>>
vars == <<mem, locals, last, dups, detached, decl, invoked, pc, diags, gen, rt>>

\* ------------------------------------------------------------------ bounds
MaxAddr == 4

Addr == 1..MaxAddr
\* The payload values a cell may hold: a String for CoCow, a Vec<u8> for CoCowSlice.
DataVals == {<<1>>, <<1, 2>>}
\* to_mut's returned reference left unused.
NoWrite == <<>>
Kinds == {"CoCow", "CoCowSlice"}
\* The caller's local variables: the container c, a view of it, the detached o.
LocalNames == {"c", "view", "o"}
MaxLocals == Cardinality(LocalNames)

\* ------------------------------------------------------------------ cells
Free == [k |-> "free"]
Data(v) == [k |-> "data", v |-> v]
\* enum CoCow<'a, T> { Owned(T), Borrowed(&'a T) }
CoCow_Owned(a) == [k |-> "cow", kind |-> "CoCow", tag |-> "Owned", at |-> a]
CoCow_Borrowed(a) == [k |-> "cow", kind |-> "CoCow", tag |-> "Borrowed", at |-> a]
\* enum CoCowSlice<'a, T> { Owned(Vec<T>), Borrowed(&'a [T]) }
CoCowSlice_Owned(a) == [k |-> "cow", kind |-> "CoCowSlice", tag |-> "Owned", at |-> a]
CoCowSlice_Borrowed(a) == [k |-> "cow", kind |-> "CoCowSlice", tag |-> "Borrowed", at |-> a]

IsCow(m, a) == m[a].k = "cow"
IsData(m, a) == m[a].k = "data"
FreeCells(m) == {a \in Addr : m[a] = Free}
Alloc(m) == CHOOSE a \in Addr : m[a] = Free /\ \A b \in Addr : m[b] = Free => a <= b

\* The cells a cell owns, itself included (an Owned container owns its payload).
RECURSIVE Tree(_, _)
Tree(m, a) ==
    IF IsCow(m, a) /\ m[a].tag = "Owned" THEN {a} \cup Tree(m, m[a].at) ELSE {a}

\* The payload types instantiated: T = String and T = CoCow<String> for CoCow<T>,
\* T = u8 for CoCowSlice<T>.
IsPayloadOf(m, a, kind) ==
    \/ IsData(m, a)
    \/ kind = "CoCow" /\ IsCow(m, a) /\ m[a].kind = "CoCow" /\ IsData(m, m[a].at)

\* The value of a cell by content (what PartialEq compares).
RECURSIVE Val(_, _)
Val(m, a) ==
    CASE m[a].k = "data" -> <<"data", m[a].v>>
      [] m[a].k = "cow" -> <<m[a].tag, Val(m, m[a].at)>>
      [] OTHER -> <<"free">>

\* Deref: the payload a container gives access to, by content.
Deref(m, c) == Val(m, c.at)

\* Live Borrowed containers that point into the set S.
Borrowers(m, S) == {b \in Addr : IsCow(m, b) /\ m[b].tag = "Borrowed" /\ m[b].at \in S}
\* The borrow checker's condition for moving, dropping or mutably borrowing a.
Exclusive(m, a) == Borrowers(m, Tree(m, a)) = {}

\* ------------------------------------------------------------------ Clone
\* #[derive(Clone)] of the containers, String::clone, Vec::clone: the value in
\* cell a duplicated into a fresh cell; a Borrowed container copies its reference.
RECURSIVE CloneCell(_, _)
CloneCell(m, a) ==
    IF IsCow(m, a) /\ m[a].tag = "Owned"
    THEN LET inner == CloneCell(m, m[a].at)
             b == Alloc(inner.mem)
         IN [mem |-> [inner.mem EXCEPT ![b] = [m[a] EXCEPT !.at = inner.at]], at |-> b]
    ELSE LET b == Alloc(m)
         IN [mem |-> [m EXCEPT ![b] = m[a]], at |-> b]

\* The cells CloneCell(m, a) allocates.
RECURSIVE CloneSize(_, _)
CloneSize(m, a) ==
    IF IsCow(m, a) /\ m[a].tag = "Owned" THEN 1 + CloneSize(m, m[a].at) ELSE 1

\* The cells detaching the value in cell a allocates: everything reached through a
\* borrow (copy) is duplicated, what is owned is moved.
RECURSIVE DetachSize(_, _, _)
DetachSize(m, a, copy) ==
    (IF copy THEN 1 ELSE 0)
    + (IF IsCow(m, a) THEN DetachSize(m, m[a].at, copy \/ m[a].tag = "Borrowed") ELSE 0)

\* ------------------------------------------------------------------ cows.rs
\* Mutant: the Borrowed arm hands out the referent itself instead of a duplicate.
CoCow_into_owned_NoClone(m, c) == [mem |-> m, at |-> c.at]

CoCow_into_owned(m, c) ==
    CASE c.tag = "Owned" -> [mem |-> m, at |-> c.at]
      [] c.tag = "Borrowed" -> CloneCell(m, c.at)

\* Mutant: the two arms swapped (duplicates the owned Vec, moves out of the borrow).
CoCowSlice_into_owned_Swapped(m, c) ==
    CASE c.tag = "Borrowed" -> [mem |-> m, at |-> c.at]
      [] c.tag = "Owned" -> CloneCell(m, c.at)

CoCowSlice_into_owned(m, c) ==
    CASE c.tag = "Owned" -> [mem |-> m, at |-> c.at]
      [] c.tag = "Borrowed" -> CloneCell(m, c.at)

\* Mutant: the Borrowed arm duplicates but forgets  *self = CoCow::Owned(..).
CoCow_to_mut_NoStore(m, c) ==
    CASE c.tag = "Owned" -> [mem |-> m, cow |-> c, at |-> c.at]
      [] c.tag = "Borrowed" ->
            LET d == CloneCell(m, c.at)
            IN [mem |-> d.mem, cow |-> c, at |-> d.at]

CoCow_to_mut(m, c) ==
    CASE c.tag = "Owned" -> [mem |-> m, cow |-> c, at |-> c.at]
      [] c.tag = "Borrowed" ->
            LET d == CloneCell(m, c.at)
            IN [mem |-> d.mem, cow |-> CoCow_Owned(d.at), at |-> d.at]

CoCowSlice_to_mut(m, c) ==
    CASE c.tag = "Owned" -> [mem |-> m, cow |-> c, at |-> c.at]
      [] c.tag = "Borrowed" ->
            LET d == CloneCell(m, c.at)
            IN [mem |-> d.mem, cow |-> CoCowSlice_Owned(d.at), at |-> d.at]

CoCow_is_borrowed(c) == c.tag = "Borrowed"
CoCow_is_owned(c) == c.tag = "Owned"

\* Mutant: shallow_clone as a plain copy of the container (*self).
CoCow_shallow_clone_Copy(c) == c

CoCow_shallow_clone(c) ==
    CASE c.tag = "Owned" -> CoCow_Borrowed(c.at)
      [] c.tag = "Borrowed" -> CoCow_Borrowed(c.at)

CoCowSlice_shallow_clone(c) ==
    CASE c.tag = "Owned" -> CoCowSlice_Borrowed(c.at)
      [] c.tag = "Borrowed" -> CoCowSlice_Borrowed(c.at)

\* impl_makeowned_basic!: make_owned(self) is self.
Basic_make_owned(v) == v
\* impl MakeOwned for Vec<T>: every element detached, order kept.
Vec_make_owned(v) == [i \in 1..Len(v) |-> Basic_make_owned(v[i])]

RECURSIVE CoCow_make_owned(_, _), CoCowSlice_make_owned(_, _), Payload_make_owned(_, _)
\* T::make_owned on the payload in cell a (consumed; its cell is reused for the result).
Payload_make_owned(m, a) ==
    IF IsCow(m, a)
    THEN LET r == IF m[a].kind = "CoCow" THEN CoCow_make_owned(m, m[a])
                  ELSE CoCowSlice_make_owned(m, m[a])
         IN [mem |-> [r.mem EXCEPT ![a] = r.cow], at |-> a]
    ELSE [mem |-> [m EXCEPT ![a] = Data(Basic_make_owned(m[a].v))], at |-> a]

\* Mutant: the payload is wrapped without being detached itself.
CoCow_make_owned_Shallow(m, c) ==
    LET io == CoCow_into_owned(m, c)
    IN [mem |-> io.mem, cow |-> CoCow_Owned(io.at)]

CoCow_make_owned(m, c) ==
    LET io == CoCow_into_owned(m, c)
        p == Payload_make_owned(io.mem, io.at)
    IN [mem |-> p.mem, cow |-> CoCow_Owned(p.at)]

CoCowSlice_make_owned(m, c) ==
    LET io == CoCowSlice_into_owned(m, c)
    IN [mem |-> [io.mem EXCEPT ![io.at] = Data(Vec_make_owned(io.mem[io.at].v))],
        cow |-> CoCowSlice_Owned(io.at)]

\* Dispatch on the container's type.
into_owned(m, c) ==
    IF c.kind = "CoCow" THEN CoCow_into_owned(m, c) ELSE CoCowSlice_into_owned(m, c)
to_mut(m, c) ==
    IF c.kind = "CoCow" THEN CoCow_to_mut(m, c) ELSE CoCowSlice_to_mut(m, c)
shallow_clone(c) ==
    IF c.kind = "CoCow" THEN CoCow_shallow_clone(c) ELSE CoCowSlice_shallow_clone(c)
make_owned(m, c) ==
    IF c.kind = "CoCow" THEN CoCow_make_owned(m, c) ELSE CoCowSlice_make_owned(m, c)

\* ------------------------------------------------------------------ state
\* The last container operation: the container it was applied to (srcCow, in cell
\* src), what dereferencing it gave before the call (deref), the cell of the result
\* (res), whether a write through to_mut's reference followed (wrote), the cells
\* the call allocated (fresh) and the cells live before it whose content it
\* changed (changed).
NoOp == [op |-> "none", src |-> 0, res |-> 0, wrote |-> FALSE, srcCow |-> Free,
         deref |-> <<>>, fresh |-> {}, changed |-> {}]
Op(name, src, res, wrote) ==
    [op |-> name, src |-> src, res |-> res, wrote |-> wrote, srcCow |-> mem[src],
     deref |-> Deref(mem, mem[src]),
     fresh |-> {a \in Addr : mem[a] = Free /\ mem'[a] # Free},
     changed |-> {a \in Addr : mem[a] # Free /\ mem'[a] # mem[a]}]

NoTrack == [a \in Addr |-> <<>>]

\* Parts II and III at rest.
NoGen == [ran |-> FALSE]
DeriveIdle ==
    /\ decl = [ident |-> "", params |-> <<>>]
    /\ invoked = "none"
    /\ pc = "idle"
    /\ diags = <<>>
    /\ gen = NoGen
RTIdle == rt = [step |-> "idle"]

CowInit ==
    /\ mem = [a \in Addr |-> Free]
    /\ locals = {}
    /\ last = NoOp
    /\ dups = [a \in Addr |-> 0]
    /\ detached = NoTrack

Init == CowInit /\ DeriveIdle /\ RTIdle

\* What stays of the bookkeeping when the cells in S are consumed or rewritten.
Forget(S) ==
    /\ detached' = [a \in Addr |-> IF a \in S THEN <<>> ELSE detached[a]]
    /\ dups' = [a \in Addr |-> IF a \in S THEN 0 ELSE dups[a]]

\* let x = v;
Let(v) ==
    /\ UNCHANGED <<deriveVars, rt>>
    /\ FreeCells(mem) # {} /\ Cardinality(locals) < MaxLocals
    /\ LET b == Alloc(mem) IN
        /\ mem' = [mem EXCEPT ![b] = Data(v)]
        /\ locals' = locals \cup {b}
        /\ last' = NoOp
    /\ UNCHANGED <<dups, detached>>

\* x = v;  for a local String/Vec nobody borrows
Write(a, v) ==
    /\ UNCHANGED <<deriveVars, rt>>
    /\ a \in locals /\ IsData(mem, a) /\ Exclusive(mem, a)
    /\ mem[a].v # v
    /\ mem' = [mem EXCEPT ![a] = Data(v)]
    /\ last' = NoOp
    /\ UNCHANGED <<locals, dups, detached>>

\* drop(x): the value and everything it owns goes away
Drop(a) ==
    /\ UNCHANGED <<deriveVars, rt>>
    /\ a \in locals /\ Exclusive(mem, a)
    /\ mem' = [b \in Addr |-> IF b \in Tree(mem, a) THEN Free ELSE mem[b]]
    /\ locals' = locals \ {a}
    /\ last' = NoOp
    /\ Forget({a})

\* From<T> for CoCow, From<Vec<T>> for CoCowSlice: the local a moves into a new container
From_owned(a, kind) ==
    /\ UNCHANGED <<deriveVars, rt>>
    /\ a \in locals /\ Exclusive(mem, a)
    /\ FreeCells(mem) # {}
    /\ IsPayloadOf(mem, a, kind)
    /\ LET b == Alloc(mem) IN
        /\ mem' = [mem EXCEPT ![b] = IF kind = "CoCow" THEN CoCow_Owned(a) ELSE CoCowSlice_Owned(a)]
        /\ locals' = (locals \ {a}) \cup {b}
        /\ last' = NoOp
    /\ Forget({a})

\* From<&'a T> for CoCow, From<&'a [T]> for CoCowSlice
From_borrowed(a, kind) ==
    /\ UNCHANGED <<deriveVars, rt>>
    /\ a \in locals
    /\ FreeCells(mem) # {} /\ Cardinality(locals) < MaxLocals
    /\ IsPayloadOf(mem, a, kind)
    /\ LET b == Alloc(mem) IN
        /\ mem' = [mem EXCEPT ![b] = IF kind = "CoCow" THEN CoCow_Borrowed(a) ELSE CoCowSlice_Borrowed(a)]
        /\ locals' = locals \cup {b}
        /\ last' = NoOp
    /\ UNCHANGED <<dups, detached>>

\* let y = x.shallow_clone();
ShallowClone(x) ==
    /\ UNCHANGED <<deriveVars, rt>>
    /\ x \in locals /\ IsCow(mem, x)
    /\ FreeCells(mem) # {} /\ Cardinality(locals) < MaxLocals
    /\ LET b == Alloc(mem) IN
        /\ mem' = [mem EXCEPT ![b] = shallow_clone(mem[x])]
        /\ locals' = locals \cup {b}
        /\ last' = Op("shallow_clone", x, b, FALSE)
    /\ UNCHANGED <<dups, detached>>

\* let t = x.into_owned();  x is consumed, t is a new local holding the payload
IntoOwned(x) ==
    /\ UNCHANGED <<deriveVars, rt>>
    /\ x \in locals /\ IsCow(mem, x) /\ Exclusive(mem, x)
    /\ mem[x].tag = "Borrowed" => Cardinality(FreeCells(mem)) >= CloneSize(mem, mem[x].at)
    /\ LET r == into_owned(mem, mem[x]) IN
        /\ mem' = [r.mem EXCEPT ![x] = Free]
        /\ locals' = (locals \ {x}) \cup {r.at}
        /\ last' = Op("into_owned", x, r.at, FALSE)
    /\ Forget({x})

\* let r = x.to_mut();  optionally followed by  *r = v;  through the returned reference
ToMut(x, w) ==
    /\ UNCHANGED <<deriveVars, rt>>
    /\ x \in locals /\ IsCow(mem, x) /\ Exclusive(mem, x)
    /\ mem[x].tag = "Borrowed" => Cardinality(FreeCells(mem)) >= CloneSize(mem, mem[x].at)
    /\ LET r == to_mut(mem, mem[x])
           m1 == [r.mem EXCEPT ![x] = r.cow]
           write == w # NoWrite
       IN
        /\ write => IsData(m1, r.at) /\ m1[r.at].v # w
        /\ mem' = IF write THEN [m1 EXCEPT ![r.at] = Data(w)] ELSE m1
        /\ last' = Op("to_mut", x, r.at, write)
        /\ dups' = [dups EXCEPT ![x] = IF FreeCells(r.mem) # FreeCells(mem) THEN @ + 1 ELSE @]
    /\ detached' = [b \in Addr |-> IF b = x THEN <<>> ELSE detached[b]]
    /\ UNCHANGED locals

\* let x = x.make_owned();  x is consumed, the result takes its place
MakeOwned(x) ==
    /\ UNCHANGED <<deriveVars, rt>>
    /\ x \in locals /\ IsCow(mem, x) /\ Exclusive(mem, x)
    /\ Cardinality(FreeCells(mem)) >= DetachSize(mem, x, FALSE)
    /\ LET r == make_owned(mem, mem[x])
           m1 == [r.mem EXCEPT ![x] = r.cow]
       IN
        /\ mem' = m1
        /\ last' = Op("make_owned", x, x, FALSE)
        /\ detached' = [detached EXCEPT ![x] = IF mem[x].tag = "Borrowed" THEN Val(m1, x) ELSE <<>>]
    /\ dups' = [dups EXCEPT ![x] = 0]
    /\ UNCHANGED locals

Next ==
    \/ \E v \in DataVals : Let(v)
    \/ \E a \in Addr, v \in DataVals : Write(a, v)
    \/ \E a \in Addr : Drop(a)
    \/ \E a \in Addr, kind \in Kinds : From_owned(a, kind)
    \/ \E a \in Addr, kind \in Kinds : From_borrowed(a, kind)
    \/ \E x \in Addr : ShallowClone(x)
    \/ \E x \in Addr : IntoOwned(x)
    \/ \E x \in Addr, w \in DataVals \cup {NoWrite} : ToMut(x, w)
    \/ \E x \in Addr : MakeOwned(x)

Spec == Init /\ [][Next]_vars

\* ------------------------------------------------------------------ claims, Part I
\* Detachment by content: every container of a value becomes Owned, data is kept.
RECURSIVE Detach(_)
Detach(v) == IF v[1] = "data" THEN v ELSE <<"Owned", Detach(v[2])>>

\* C1: shallow_clone of a CoCow/CoCowSlice always returns Borrowed; the result refers
\* to the payload cell of the input (the input's own payload if it is Owned, the
\* same referent if it is Borrowed, never the input container itself), the input
\* is left as it was and nothing but the new container is allocated, so no payload
\* is duplicated however often shallow_clone is applied in a row.
C1_ShallowCloneBorrowsSamePayload ==
    last.op = "shallow_clone" =>
        /\ IsCow(mem, last.res)
        /\ mem[last.res].kind = last.srcCow.kind
        /\ mem[last.res].tag = "Borrowed"
        /\ mem[last.res].at = last.srcCow.at
        /\ mem[last.res].at # last.src
        /\ last.srcCow.tag = "Owned" => mem[last.res].at \in Tree(mem, last.src)
        /\ mem[last.src] = last.srcCow
        /\ Deref(mem, mem[last.res]) = last.deref
        /\ last.fresh = {last.res}
        /\ last.changed = {}

\* C1 witness: shallow_clone applied to the result of a shallow_clone of an Owned
\* container: a second Borrowed container on the owner's payload.
C1_Witness ==
    /\ last.op = "shallow_clone"
    /\ last.srcCow.tag = "Borrowed"
    /\ \E c \in locals : IsCow(mem, c) /\ mem[c].tag = "Owned" /\ mem[c].at = mem[last.res].at

\* C2: make_owned of a CoCow/CoCowSlice returns Owned for both variants, and its
\* payload is the detached form of what into_owned gives (the payload the input
\* dereferenced to); nothing in the result is Borrowed.
C2_MakeOwnedIsOwnedOfDetachedPayload ==
    last.op = "make_owned" =>
        /\ IsCow(mem, last.res)
        /\ mem[last.res].kind = last.srcCow.kind
        /\ mem[last.res].tag = "Owned"
        /\ Val(mem, mem[last.res].at) = Detach(last.deref)
        /\ \A a \in Tree(mem, last.res) : ~(IsCow(mem, a) /\ mem[a].tag = "Borrowed")

\* C2 witness: make_owned of a container whose payload is itself a Borrowed
\* container (the recursive case), which had to duplicate the inner referent.
C2_Witness ==
    /\ last.op = "make_owned"
    /\ last.deref[1] = "Borrowed"
    /\ last.fresh # {}

\* C3: to_mut on a Borrowed container replaces it in place by Owned holding a
\* duplicate equal to the referent and returns a reference to the duplicate; the
\* referent is changed neither by the call nor by a write through the returned
\* reference; on an Owned container nothing is duplicated.  After to_mut the
\* container is Owned and stays so, and at most one duplication has happened.
C3_ToMutOwnsOnce ==
    /\ last.op = "to_mut" =>
        /\ IsCow(mem, last.src)
        /\ mem[last.src].tag = "Owned"
        /\ mem[last.src].kind = last.srcCow.kind
        /\ mem[last.src].at = last.res
        /\ last.srcCow.tag = "Borrowed" =>
            /\ last.res \in last.fresh
            /\ ~last.wrote => Val(mem, last.res) = last.deref
            /\ Val(mem, last.srcCow.at) = last.deref
            /\ last.changed = {last.src}
        /\ last.srcCow.tag = "Owned" =>
            /\ last.fresh = {}
            /\ last.res = last.srcCow.at
            /\ last.changed \subseteq {last.res}
    /\ \A x \in Addr : dups[x] > 0 => IsCow(mem, x) /\ mem[x].tag = "Owned" /\ dups[x] = 1

\* C3 witness: a container that was Borrowed, was duplicated by to_mut, and has
\* since been written through a second to_mut; the referent still has its value.
C3_Witness ==
    /\ last.op = "to_mut" /\ last.wrote
    /\ last.srcCow.tag = "Owned"
    /\ dups[last.src] = 1

\* C4: into_owned returns the stored payload itself, duplicating nothing, when the
\* container is Owned, and a fresh duplicate of the referent when it is Borrowed;
\* either way the returned value equals what the container dereferenced to, and
\* in the Borrowed case the referent is unchanged.
C4_IntoOwnedPayloadOrDuplicate ==
    last.op = "into_owned" =>
        /\ last.res \in locals
        /\ Val(mem, last.res) = last.deref
        /\ last.srcCow.tag = "Owned" =>
            /\ last.res = last.srcCow.at
            /\ last.fresh = {}
        /\ last.srcCow.tag = "Borrowed" =>
            /\ last.res \in last.fresh
            /\ last.res # last.srcCow.at
            /\ Val(mem, last.srcCow.at) = last.deref
        /\ last.changed = {last.src}

\* C4 witness: into_owned of a Borrowed CoCowSlice has produced a duplicate Vec.
C4_Witness ==
    /\ last.op = "into_owned"
    /\ last.srcCow.tag = "Borrowed"
    /\ last.srcCow.kind = "CoCowSlice"
    /\ last.res \in last.fresh

\* C6: o = make_owned(shallow_clone(c)) holds its own payload: nothing in o is
\* Borrowed, no cell of o belongs to another value, and whatever happens to the
\* other values afterwards (writes, to_mut, drops) o keeps its content; and
\* shallow_clone(o) is Borrowed referring to the payload stored inside o.
C6_DetachedSharesNothing ==
    \A o \in Addr : detached[o] # <<>> =>
        /\ o \in locals /\ IsCow(mem, o) /\ mem[o].tag = "Owned"
        /\ Val(mem, o) = detached[o]
        /\ Val(mem, o) = Detach(Val(mem, o))
        /\ \A a \in Tree(mem, o) : mem[a] # Free
        /\ \A y \in locals \ {o} : Tree(mem, y) \cap Tree(mem, o) = {}
        /\ (last.op = "shallow_clone" /\ last.src = o) =>
            /\ mem[last.res].tag = "Borrowed"
            /\ mem[last.res].at = mem[o].at
            /\ mem[last.res].at \in Tree(mem, o)

\* C6 witness: o was detached from a view of an Owned c, then c was written through
\* to_mut while o was alive.
C6_Witness ==
    \E o \in Addr :
        /\ detached[o] # <<>>
        /\ last.op = "to_mut" /\ last.wrote /\ last.src # o
        /\ last.srcCow.tag = "Owned"
        /\ last.deref = detached[o][2]

\* ================================================================== Part II
\* ------------------------------------------------------------------ bounds
\* The size of a declaration: its generic parameters, their attributes, its
\* where clause, its fields and variants.
MaxDecl == 4

\* enum DeriveType { ShallowClone, MakeOwned }
DeriveTypes == {"ShallowClone", "MakeOwned"}

\* ------------------------------------------------------------------ tokens
\* quote!'s  #(#xs),*  : the streams of xs with sep between every two.
RECURSIVE Join(_, _)
Join(xs, sep) ==
    IF xs = <<>> THEN <<>>
    ELSE IF Len(xs) = 1 THEN xs[1]
    ELSE xs[1] \o <<sep>> \o Join(Tail(xs), sep)

\* Tokens that are not identifiers.
NonIdents == {"1", ",", "=", "(", ")"}
\* syn's MetaList::parse_args::<Ident>(): Ok exactly for one identifier token.
ParseArgsIdent(args) == Len(args) = 1 /\ args[1] \notin NonIdents

\* ------------------------------------------------------------------ the declaration
\* Names by position, as rustc requires them distinct.
LifetimeNames == <<"'a", "'b", "'c", "'d", "'e", "'f">>
TypeNames == <<"T", "U", "V", "W", "X", "Y">>
ConstNames == <<"N", "M", "K", "L", "J", "I">>
ParamName(pk, i) ==
    CASE pk = "Lifetime" -> LifetimeNames[i]
      [] pk = "Type" -> TypeNames[i]
      [] pk = "Const" -> ConstNames[i]

\* The bound lists a parameter may come with: none, or one bound.
BoundsOf(pk) ==
    CASE pk = "Lifetime" -> {<<>>, <<"'static">>}
      [] pk = "Type" -> {<<>>, <<"Clone">>}
      [] pk = "Const" -> {<<>>}

\* The attributes a generic parameter may carry.
AttrPool ==
    { [path |-> "shallowclone", meta |-> "List", args |-> <<"skip">>],
      [path |-> "makeowned", meta |-> "List", args |-> <<"skip">>],
      [path |-> "shallowclone", meta |-> "List", args |-> <<"foo">>],
      [path |-> "makeowned", meta |-> "Path", args |-> <<>>],
      [path |-> "makeowned", meta |-> "List", args |-> <<"skip", ",", "skip">>] }

NoWhere == [present |-> FALSE, preds |-> <<>>, trailing |-> FALSE]
WherePool ==
    { [present |-> TRUE, preds |-> << <<"Self", ":", "Sized">> >>, trailing |-> FALSE],
      [present |-> TRUE, preds |-> << <<"Self", ":", "Sized">> >>, trailing |-> TRUE],
      [present |-> TRUE, preds |-> <<>>, trailing |-> FALSE] }

NoFields == [style |-> "Unit", list |-> <<>>]
UnitStructData == [k |-> "Struct", fields |-> NoFields, variants |-> <<>>]
DataPool ==
    { [k |-> "Struct", fields |-> [style |-> "Named", list |-> <<>>], variants |-> <<>>],
      [k |-> "Struct", fields |-> [style |-> "Unnamed", list |-> <<>>], variants |-> <<>>],
      [k |-> "Enum", fields |-> NoFields, variants |-> <<>>],
      [k |-> "Union", fields |-> [style |-> "Named", list |-> <<>>], variants |-> <<>>] }

\* The next field of a field list: named fieldN in a named list, without a name
\* (ident "") in a positional one.
NewField(fields) ==
    [ident |-> IF fields.style = "Named" THEN "field" \o ToString(Len(fields.list) + 1) ELSE "",
     ty |-> "u16"]
AddFieldTo(fields) == [fields EXCEPT !.list = Append(@, NewField(fields))]

RECURSIVE SumLen(_)
SumLen(xs) == IF xs = <<>> THEN 0 ELSE Len(xs[1]) + SumLen(Tail(xs))

DeclSize(d) ==
    Len(d.params)
    + SumLen([i \in 1..Len(d.params) |-> d.params[i].attrs])
    + (IF d.where.present THEN 1 ELSE 0)
    + (IF d.data = UnitStructData THEN 0 ELSE 1)
    + Len(d.data.fields.list)
    + Len(d.data.variants)
    + SumLen([i \in 1..Len(d.data.variants) |-> d.data.variants[i].fields.list])

\* ------------------------------------------------------------------ attributes.rs
RECURSIVE ScanAttrs(_, _, _, _)

\* Mutant: the root tags of the two derives swapped.
RootTag_Swapped(derive_type) ==
    CASE derive_type = "ShallowClone" -> "makeowned"
      [] derive_type = "MakeOwned" -> "shallowclone"

RootTag(derive_type) ==
    CASE derive_type = "ShallowClone" -> "shallowclone"
      [] derive_type = "MakeOwned" -> "makeowned"

\* emit_error!(.., "Unknown attribute") on attribute i of parameter input; span is
\* the parsed identifier or the whole attribute.
UnknownAttribute(input, i, span) ==
    [msg |-> "Unknown attribute", param |-> input.name, attr |-> i, span |-> span,
     fatal |-> FALSE]
\* abort!(input, "const generics cannot be skipped")
CannotBeSkipped(input) ==
    [msg |-> "const generics cannot be skipped", param |-> input.name, attr |-> 0,
     span |-> "param", fatal |-> TRUE]

\* The loop over attrs from attribute i on; ds are the diagnostics emitted so far.
ScanAttrs(derive_type, input, i, ds) ==
    IF i > Len(input.attrs) THEN [abort |-> FALSE, ret |-> FALSE, diags |-> ds]
    ELSE LET attr == input.attrs[i] IN
        IF attr.path # RootTag(derive_type)
        THEN ScanAttrs(derive_type, input, i + 1, ds)
        ELSE IF attr.meta = "List" /\ ParseArgsIdent(attr.args)
        THEN IF attr.args[1] = "skip"
             THEN [abort |-> FALSE, ret |-> TRUE, diags |-> ds]
             ELSE ScanAttrs(derive_type, input, i + 1,
                            Append(ds, UnknownAttribute(input, i, "parsed")))
        ELSE ScanAttrs(derive_type, input, i + 1,
                       Append(ds, UnknownAttribute(input, i, "attr")))

is_generic_skipped(derive_type, input) ==
    IF input.pk = "Const"
    THEN [abort |-> TRUE, ret |-> FALSE, diags |-> <<CannotBeSkipped(input)>>]
    ELSE ScanAttrs(derive_type, input, 1, <<>>)

\* ------------------------------------------------------------------ target_type.rs
\* syn's ToTokens for an attribute and for a const parameter.
AttrTokens(attr) ==
    <<"#", "[", attr.path>>
    \o (IF attr.meta = "List" THEN <<"(">> \o attr.args \o <<")">> ELSE <<>>)
    \o <<"]">>
RECURSIVE AttrsTokens(_)
AttrsTokens(attrs) ==
    IF attrs = <<>> THEN <<>> ELSE AttrTokens(attrs[1]) \o AttrsTokens(Tail(attrs))
ConstParamTokens(p) == AttrsTokens(p.attrs) \o <<"const", p.name, ":", p.ty>>

\* Mutant: the lifetime rewrites of the two derives swapped.
TargetArg_Swapped(generic, derive_type, skipped) ==
    IF skipped THEN <<generic.name>>
    ELSE CASE generic.pk = "Type" /\ derive_type = "ShallowClone" ->
                <<"<", generic.name, "as", "ShallowClone", "<", "'shallowclone", ">", ">",
                  "::", "Target">>
           [] generic.pk = "Type" /\ derive_type = "MakeOwned" ->
                <<"<", generic.name, "as", "MakeOwned", ">", "::", "Owned">>
           [] generic.pk = "Lifetime" /\ derive_type = "ShallowClone" -> <<"'static">>
           [] generic.pk = "Lifetime" /\ derive_type = "MakeOwned" -> <<"'shallowclone">>

\* The argument for a lifetime or type parameter, given is_generic_skipped's answer.
TargetArg(generic, derive_type, skipped) ==
    IF skipped THEN <<generic.name>>
    ELSE CASE generic.pk = "Type" /\ derive_type = "ShallowClone" ->
                <<"<", generic.name, "as", "ShallowClone", "<", "'shallowclone", ">", ">",
                  "::", "Target">>
           [] generic.pk = "Type" /\ derive_type = "MakeOwned" ->
                <<"<", generic.name, "as", "MakeOwned", ">", "::", "Owned">>
           [] generic.pk = "Lifetime" /\ derive_type = "ShallowClone" -> <<"'shallowclone">>
           [] generic.pk = "Lifetime" /\ derive_type = "MakeOwned" -> <<"'static">>

\* The map over input.generics.params from parameter i on: the arguments, the
\* diagnostics emitted, and what each call of is_generic_skipped returned.
RECURSIVE TargetArgs(_, _, _, _)
TargetArgs(input, derive_type, i, acc) ==
    IF i > Len(input.params) THEN acc
    ELSE LET generic == input.params[i] IN
        IF generic.pk = "Const"
        THEN TargetArgs(input, derive_type, i + 1,
                        [acc EXCEPT !.args = Append(@, ConstParamTokens(generic))])
        ELSE LET r == is_generic_skipped(derive_type, generic) IN
            TargetArgs(input, derive_type, i + 1,
                       [args |-> Append(acc.args, TargetArg(generic, derive_type, r.ret)),
                        diags |-> acc.diags \o r.diags,
                        calls |-> Append(acc.calls, [param |-> i, ret |-> r.ret, diags |-> r.diags])])

get_target_type(input, derive_type) ==
    LET g == TargetArgs(input, derive_type, 1, [args |-> <<>>, diags |-> <<>>, calls |-> <<>>])
    IN [tokens |-> <<input.ident, "<">> \o Join(g.args, ",") \o <<">">>,
        args |-> g.args, diags |-> g.diags, calls |-> g.calls]

\* ------------------------------------------------------------------ gen_impl.rs
tuple_field(i) == "f" \o ToString(i)

\* One field expression of gen_fields: the field's name ("" when positional), the
\* transformation called and the tokens of its argument.
\* Mutant: ShallowClone reads the fields of a struct by value.
FieldIdentTokens_ByValue(derive_type, is_enum, field, i) ==
    CASE is_enum /\ field.ident # "" -> <<field.ident>>
      [] ~is_enum /\ field.ident # "" -> <<"self", ".", field.ident>>
      [] ~is_enum /\ field.ident = "" -> <<"self", ".", ToString(i)>>
      [] is_enum /\ field.ident = "" -> <<tuple_field(i)>>

FieldIdentTokens(derive_type, is_enum, field, i) ==
    CASE is_enum /\ field.ident # "" -> <<field.ident>>
      [] derive_type = "ShallowClone" /\ ~is_enum /\ field.ident # "" -> <<"&", "self", ".", field.ident>>
      [] derive_type = "MakeOwned" /\ ~is_enum /\ field.ident # "" -> <<"self", ".", field.ident>>
      [] derive_type = "ShallowClone" /\ ~is_enum /\ field.ident = "" -> <<"&", "self", ".", ToString(i)>>
      [] derive_type = "MakeOwned" /\ ~is_enum /\ field.ident = "" -> <<"self", ".", ToString(i)>>
      [] is_enum /\ field.ident = "" -> <<tuple_field(i)>>

\* Mutant: every positional field of a struct is read from position 0.
gen_fields_FirstIndex(derive_type, fields, is_enum) ==
    [i \in 1..Len(fields.list) |->
        [name |-> fields.list[i].ident,
         call |-> IF derive_type = "ShallowClone" THEN <<"ShallowClone", "::", "shallow_clone">>
                  ELSE <<"MakeOwned", "::", "make_owned">>,
         arg |-> FieldIdentTokens(derive_type, is_enum, fields.list[i], 0)]]

gen_fields(derive_type, fields, is_enum) ==
    [i \in 1..Len(fields.list) |->
        [name |-> fields.list[i].ident,
         call |-> IF derive_type = "ShallowClone" THEN <<"ShallowClone", "::", "shallow_clone">>
                  ELSE <<"MakeOwned", "::", "make_owned">>,
         arg |-> FieldIdentTokens(derive_type, is_enum, fields.list[i], i - 1)]]

\* The tokens of gen_fields' result:  #(#inner),*
FieldExprTokens(e) ==
    (IF e.name # "" THEN <<e.name, ":">> ELSE <<>>) \o e.call \o <<"(">> \o e.arg \o <<")">>
InnerTokens(inner) == Join([i \in 1..Len(inner) |-> FieldExprTokens(inner[i])], ",")

\* Mutant: the bindings of a positional variant are numbered from 1, the
\* expressions that use them from 0.
VariantArm_OneBased(derive_type, item_name, variant) ==
    LET inner == gen_fields(derive_type, variant.fields, TRUE)
        n == Len(variant.fields.list)
        binds == IF variant.fields.style = "Named"
                 THEN [i \in 1..n |-> variant.fields.list[i].ident]
                 ELSE [i \in 1..n |-> tuple_field(i)]
        open == IF variant.fields.style = "Named" THEN "{" ELSE "("
        close == IF variant.fields.style = "Named" THEN "}" ELSE ")"
    IN IF variant.fields.style = "Unit"
       THEN [variant |-> variant.ident, style |-> "Unit", pat |-> <<>>, inner |-> <<>>,
             tokens |-> <<"Self", "::", variant.ident, "=>", item_name, "::", variant.ident>>]
       ELSE [variant |-> variant.ident, style |-> variant.fields.style,
             pat |-> binds, inner |-> inner,
             tokens |-> <<"Self", "::", variant.ident, open>>
                        \o Join([i \in 1..n |-> <<binds[i]>>], ",")
                        \o <<close, "=>", item_name, "::", variant.ident, open>>
                        \o InnerTokens(inner) \o <<close>>]

\* One match arm of gen_impl for an enum variant.
VariantArm(derive_type, item_name, variant) ==
    LET inner == gen_fields(derive_type, variant.fields, TRUE)
        n == Len(variant.fields.list)
    IN CASE variant.fields.style = "Named" ->
                [variant |-> variant.ident, style |-> "Named",
                 pat |-> [i \in 1..n |-> variant.fields.list[i].ident], inner |-> inner,
                 tokens |-> <<"Self", "::", variant.ident, "{">>
                            \o Join([i \in 1..n |-> <<variant.fields.list[i].ident>>], ",")
                            \o <<"}", "=>", item_name, "::", variant.ident, "{">>
                            \o InnerTokens(inner) \o <<"}">>]
         [] variant.fields.style = "Unnamed" ->
                [variant |-> variant.ident, style |-> "Unnamed",
                 pat |-> [i \in 1..n |-> tuple_field(i - 1)], inner |-> inner,
                 tokens |-> <<"Self", "::", variant.ident, "(">>
                            \o Join([i \in 1..n |-> <<tuple_field(i - 1)>>], ",")
                            \o <<")", "=>", item_name, "::", variant.ident, "(">>
                            \o InnerTokens(inner) \o <<")">>]
         [] variant.fields.style = "Unit" ->
                [variant |-> variant.ident, style |-> "Unit", pat |-> <<>>, inner |-> <<>>,
                 tokens |-> <<"Self", "::", variant.ident, "=>", item_name, "::", variant.ident>>]

\* Mutant: a union is given the body of a struct with the same fields.
gen_impl_UnionAsStruct(derive_type, input) ==
    LET item_name == input.ident
        data == input.data
    IN IF data.k = "Enum"
       THEN LET arms == [j \in 1..Len(data.variants) |->
                            VariantArm(derive_type, item_name, data.variants[j])]
            IN [panic |-> FALSE, k |-> "Enum", style |-> "Unit", inner |-> <<>>, arms |-> arms,
                tokens |-> <<"match", "self", "{">>
                           \o Join([j \in 1..Len(arms) |-> arms[j].tokens], ",") \o <<"}">>]
       ELSE LET inner == gen_fields(derive_type, data.fields, FALSE) IN
                [panic |-> FALSE, k |-> data.k, style |-> data.fields.style,
                 inner |-> inner, arms |-> <<>>,
                 tokens |-> CASE data.fields.style = "Named" ->
                                    <<item_name, "{">> \o InnerTokens(inner) \o <<"}">>
                              [] data.fields.style = "Unnamed" ->
                                    <<item_name, "(">> \o InnerTokens(inner) \o <<")">>
                              [] data.fields.style = "Unit" -> <<item_name>>]

\* gen_impl: the body of the generated method, or a panic (unimplemented!()).
gen_impl(derive_type, input) ==
    LET item_name == input.ident
        data == input.data
    IN CASE data.k = "Struct" ->
            LET inner == gen_fields(derive_type, data.fields, FALSE) IN
                [panic |-> FALSE, k |-> "Struct", style |-> data.fields.style,
                 inner |-> inner, arms |-> <<>>,
                 tokens |-> CASE data.fields.style = "Named" ->
                                    <<item_name, "{">> \o InnerTokens(inner) \o <<"}">>
                              [] data.fields.style = "Unnamed" ->
                                    <<item_name, "(">> \o InnerTokens(inner) \o <<")">>
                              [] data.fields.style = "Unit" -> <<item_name>>]
         [] data.k = "Enum" ->
            LET arms == [j \in 1..Len(data.variants) |->
                            VariantArm(derive_type, item_name, data.variants[j])]
            IN [panic |-> FALSE, k |-> "Enum", style |-> "Unit", inner |-> <<>>, arms |-> arms,
                tokens |-> <<"match", "self", "{">>
                           \o Join([j \in 1..Len(arms) |-> arms[j].tokens], ",") \o <<"}">>]
         [] data.k = "Union" ->
            [panic |-> TRUE, k |-> "Union", style |-> "Unit", inner |-> <<>>, arms |-> <<>>,
             tokens |-> <<>>]

\* ------------------------------------------------------------------ lib.rs
\* syn's Generics::split_for_impl().1 : lifetimes first, then the other names.
TypeGenericsTokens(params) ==
    LET lts == SelectSeq(params, LAMBDA q : q.pk = "Lifetime")
        others == SelectSeq(params, LAMBDA q : q.pk # "Lifetime")
        names == [i \in 1..Len(lts) |-> <<lts[i].name>>] \o [i \in 1..Len(others) |-> <<others[i].name>>]
    IN IF params = <<>> THEN <<>> ELSE <<"<">> \o Join(names, ",") \o <<">">>

\* syn's ToTokens for a where clause: nothing at all when it has no predicate.
WhereClauseTokens(w) ==
    IF w.preds = <<>> THEN <<>>
    ELSE <<"where">> \o Join(w.preds, ",") \o (IF w.trailing THEN <<",">> ELSE <<>>)

\* The loop of derive() over input.generics.params from parameter i on.
RECURSIVE GenericsLoop(_, _, _, _)
GenericsLoop(input, derive_type, i, acc) ==
    IF i > Len(input.params) THEN acc
    ELSE LET generic == input.params[i]
             r == is_generic_skipped(derive_type, generic)
             skip == r.ret
             seen == [acc EXCEPT !.diags = @ \o r.diags]
         IN
        IF r.abort THEN [seen EXCEPT !.abort = TRUE]
        ELSE CASE generic.pk = "Lifetime" ->
                    GenericsLoop(input, derive_type, i + 1,
                        [seen EXCEPT
                            !.impl_generics = Append(@, <<generic.name, ":">> \o generic.bounds),
                            !.extra_bounds =
                                IF ~skip /\ derive_type = "ShallowClone"
                                THEN Append(@, <<generic.name, ":", "'shallowclone">>)
                                ELSE @])
               [] generic.pk = "Type" ->
                    GenericsLoop(input, derive_type, i + 1,
                        [seen EXCEPT
                            !.impl_generics = Append(@, <<generic.name, ":">> \o generic.bounds),
                            !.extra_bounds =
                                IF skip
                                THEN IF derive_type = "MakeOwned"
                                     THEN Append(@, <<generic.name, ":", "'static">>)
                                     ELSE @
                                ELSE IF derive_type = "ShallowClone"
                                THEN Append(@, <<generic.name, ":", "ShallowClone", "<",
                                                 "'shallowclone", ">">>)
                                ELSE @ \o << <<generic.name, ":", "MakeOwned">>,
                                             <<"<", generic.name, "as", "MakeOwned", ">", "::",
                                               "Owned", ":">> \o generic.bounds >>])
               [] generic.pk = "Const" ->
                    GenericsLoop(input, derive_type, i + 1,
                        [seen EXCEPT
                            !.impl_generics = Append(@, <<"const", generic.name, ":", generic.ty>>)])

\* for<'any> Name<..>: Clone, every lifetime argument replaced by 'any.
AnyCloneBound(input) ==
    <<"for", "<", "'any", ">", input.ident, "<">>
    \o Join([i \in 1..Len(input.params) |->
                IF input.params[i].pk = "Lifetime" THEN <<"'any">> ELSE <<input.params[i].name>>],
            ",")
    \o <<">", ":", "Clone">>

\* derive(): the locals at its end, and what it returns.
derive(input, derive_type) ==
    LET target == get_target_type(input, derive_type)
        loop == GenericsLoop(input, derive_type, 1,
                    [impl_generics |-> <<>>, extra_bounds |-> <<>>, diags |-> <<>>,
                     abort |-> FALSE])
        extra_bounds == IF derive_type = "MakeOwned"
                        THEN Append(loop.extra_bounds, AnyCloneBound(input))
                        ELSE loop.extra_bounds
        where_clause == (IF input.where.present THEN WhereClauseTokens(input.where)
                         ELSE <<"where">>)
                        \o Join(extra_bounds, ",")
        impl_code == gen_impl(derive_type, input)
        type_generics == TypeGenericsTokens(input.params)
        outcome == IF loop.abort THEN "aborted" ELSE IF impl_code.panic THEN "panicked" ELSE "done"
        output ==
            IF derive_type = "ShallowClone"
            THEN <<"impl", "<", "'shallowclone", ",">> \o Join(loop.impl_generics, ",")
                 \o <<">", "ShallowClone", "<", "'shallowclone", ">", "for", input.ident>>
                 \o type_generics \o where_clause
                 \o <<"{", "type", "Target", "=">> \o target.tokens
                 \o <<";", "fn", "shallow_clone", "(", "&", "'shallowclone", "self", ")", "->",
                      "<", "Self", "as", "ShallowClone", "<", "'shallowclone", ">", ">", "::",
                      "Target", "{">>
                 \o impl_code.tokens \o <<"}", "}">>
            ELSE <<"impl", "<">> \o Join(loop.impl_generics, ",")
                 \o <<">", "MakeOwned", "for", input.ident>>
                 \o type_generics \o where_clause
                 \o <<"{", "type", "Owned", "=">> \o target.tokens
                 \o <<";", "fn", "make_owned", "(", "self", ")", "->",
                      "<", "Self", "as", "MakeOwned", ">", "::", "Owned", "{">>
                 \o impl_code.tokens \o <<"}", "}">>
    IN [ran |-> TRUE,
        outcome |-> outcome,
        diags |-> target.diags \o loop.diags,
        target_type |-> target.tokens,
        target_args |-> target.args,
        calls |-> target.calls,
        impl_generics |-> loop.impl_generics,
        extra_bounds |-> IF loop.abort THEN loop.extra_bounds ELSE extra_bounds,
        where_clause |-> IF loop.abort THEN <<>> ELSE where_clause,
        impl_code |-> IF outcome = "done" THEN impl_code.tokens ELSE <<>>,
        output |-> IF outcome = "done" THEN output ELSE <<>>]

\* ------------------------------------------------------------------ state
DeriveStart ==
    /\ decl = [ident |-> "Item", params |-> <<>>, where |-> NoWhere, data |-> UnitStructData]
    /\ invoked = "none"
    /\ pc = "parse"
    /\ diags = <<>>
    /\ gen = NoGen

ParseFrame == UNCHANGED <<cowVars, rt, invoked, pc, diags, gen>>
CountOf(pk) == Len(SelectSeq(decl.params, LAMBDA q : q.pk = pk))

\* parse_macro_input!: the next generic parameter of the declaration
ParseParam(pk, bounds) ==
    /\ pc = "parse" /\ DeclSize(decl) < MaxDecl
    /\ pk = "Lifetime" => \A i \in 1..Len(decl.params) : decl.params[i].pk = "Lifetime"
    /\ decl' = [decl EXCEPT !.params = Append(@,
                    [pk |-> pk, name |-> ParamName(pk, CountOf(pk) + 1), bounds |-> bounds,
                     ty |-> IF pk = "Const" THEN "usize" ELSE "", attrs |-> <<>>])]
    /\ ParseFrame

\* parse_macro_input!: one more attribute on the last generic parameter
ParseAttr(attr) ==
    /\ pc = "parse" /\ DeclSize(decl) < MaxDecl
    /\ decl.params # <<>>
    /\ decl' = [decl EXCEPT !.params[Len(decl.params)].attrs = Append(@, attr)]
    /\ ParseFrame

\* parse_macro_input!: the where clause
ParseWhere(w) ==
    /\ pc = "parse" /\ DeclSize(decl) < MaxDecl
    /\ ~decl.where.present
    /\ decl' = [decl EXCEPT !.where = w]
    /\ ParseFrame

\* parse_macro_input!: the kind of item (other than a unit struct)
ParseData(data) ==
    /\ pc = "parse" /\ DeclSize(decl) < MaxDecl
    /\ decl.data = UnitStructData
    /\ decl' = [decl EXCEPT !.data = data]
    /\ ParseFrame

\* parse_macro_input!: the next variant of an enum
ParseVariant(style) ==
    /\ pc = "parse" /\ DeclSize(decl) < MaxDecl
    /\ decl.data.k = "Enum"
    /\ decl' = [decl EXCEPT !.data.variants = Append(@,
                    [ident |-> "V" \o ToString(Len(decl.data.variants) + 1),
                     fields |-> [style |-> style, list |-> <<>>]])]
    /\ ParseFrame

\* parse_macro_input!: the next field of the struct, or of the enum's last variant
ParseField ==
    /\ pc = "parse" /\ DeclSize(decl) < MaxDecl
    /\ \/ /\ decl.data.k \in {"Struct", "Union"}
          /\ decl.data.fields.style # "Unit"
          /\ decl' = [decl EXCEPT !.data.fields = AddFieldTo(@)]
       \/ /\ decl.data.k = "Enum" /\ decl.data.variants # <<>>
          /\ decl.data.variants[Len(decl.data.variants)].fields.style # "Unit"
          /\ decl' = [decl EXCEPT !.data.variants[Len(decl.data.variants)].fields = AddFieldTo(@)]
    /\ ParseFrame

\* #[proc_macro_derive(ShallowClone)] / #[proc_macro_derive(MakeOwned)]: derive() on
\* the parsed declaration
Derive(dt) ==
    /\ pc = "parse"
    /\ LET r == derive(decl, dt) IN
        /\ gen' = r
        /\ diags' = r.diags
        /\ pc' = r.outcome
    /\ invoked' = dt
    /\ UNCHANGED <<cowVars, rt, decl>>

DeriveNext ==
    \/ \E pk \in {"Lifetime", "Type", "Const"} : \E bounds \in BoundsOf(pk) : ParseParam(pk, bounds)
    \/ \E attr \in AttrPool : ParseAttr(attr)
    \/ \E w \in WherePool : ParseWhere(w)
    \/ \E data \in DataPool : ParseData(data)
    \/ \E style \in {"Named", "Unnamed", "Unit"} : ParseVariant(style)
    \/ ParseField
    \/ \E dt \in DeriveTypes : Derive(dt)

DeriveInit == CowInit /\ DeriveStart /\ RTIdle
DeriveSpec == DeriveInit /\ [][DeriveNext]_vars

\* ================================================================== Part III
\* ------------------------------------------------------------------ values
\* The types of the fields of the derived test structs, and values of them by
\* their bytes: a scalar's little-endian bytes, a String's UTF-8 bytes.
BaseTypes == {"u16", "u32", "String"}
ValuesOf(ty) ==
    CASE ty = "u16" -> {<<0, 0>>, <<1, 0>>, <<255, 255>>}
      [] ty = "u32" -> {<<0, 0, 0, 0>>, <<0, 0, 1, 0>>, <<255, 255, 255, 255>>}
      [] ty = "String" -> {<<>>, <<97>>, <<97, 98>>}
BaseValues == UNION {{[ty |-> ty, v |-> v] : v \in ValuesOf(ty)} : ty \in BaseTypes}

\* #[derive(ShallowClone)] / #[derive(MakeOwned, Clone)] struct ...
TestStructs == {"UnitStruct", "EmptyStruct", "TupleStruct", "Struct"}
TestFields(name) ==
    CASE name = "UnitStruct" -> NoFields
      [] name = "EmptyStruct" -> [style |-> "Named", list |-> <<>>]
      [] name = "TupleStruct" ->
            [style |-> "Unnamed",
             list |-> <<[ident |-> "", ty |-> "u16"], [ident |-> "", ty |-> "u32"],
                        [ident |-> "", ty |-> "String"]>>]
      [] name = "Struct" ->
            [style |-> "Named",
             list |-> <<[ident |-> "field1", ty |-> "u16"], [ident |-> "field2", ty |-> "u32"],
                        [ident |-> "field3", ty |-> "String"]>>]
TestDecl(name) ==
    [ident |-> name, params |-> <<>>, where |-> NoWhere,
     data |-> [k |-> "Struct", fields |-> TestFields(name), variants |-> <<>>]]

\* The values of a struct: its fields in declaration order, named or positional.
StructValues(name) ==
    LET fields == TestFields(name)
        n == Len(fields.list)
    IN { [ty |-> name, style |-> fields.style,
          fields |-> [i \in 1..n |-> [name |-> fields.list[i].ident, val |-> vs[i]]]] :
            vs \in { f \in [1..n -> BaseValues] :
                        \A i \in 1..n : f[i].ty = fields.list[i].ty } }

\* ------------------------------------------------------------------ shallowclone.rs, makeowned.rs
\* Clone for a scalar copies it; for a String it copies the bytes into a new
\* buffer of the same length.
Clone(val) == [val EXCEPT !.v = [i \in 1..Len(val.v) |-> val.v[i]]]
\* impl_shallowclone_by_clone!
ByClone_shallow_clone(val) == Clone(val)

\* ------------------------------------------------------------------ the generated body
\* The place a field expression of the body reads: self.name or self.index, with
\* or without & in front.
Place(arg, self) ==
    LET path == IF arg[1] = "&" THEN Tail(arg) ELSE arg
        member == path[3]
        i == CHOOSE i \in 1..Len(self.fields) :
                IF self.style = "Named" THEN self.fields[i].name = member
                ELSE ToString(i - 1) = member
    IN self.fields[i].val

\* The call of a field expression, resolved for the base types.
Call(call, val) ==
    IF call = <<"ShallowClone", "::", "shallow_clone">> THEN ByClone_shallow_clone(val)
    ELSE Basic_make_owned(val)

\* The value the body generated by gen_impl for a struct evaluates to.
EvalBody(body, self) ==
    [ty |-> body.tokens[1], style |-> body.style,
     fields |-> [i \in 1..Len(body.inner) |->
                    [name |-> body.inner[i].name,
                     val |-> Call(body.inner[i].call, Place(body.inner[i].arg, self))]]]

\* shallow_clone and make_owned of a value of a base type or of a test struct.
RT_shallow_clone(x) ==
    IF x.ty \in BaseTypes THEN ByClone_shallow_clone(x)
    ELSE EvalBody(gen_impl("ShallowClone", TestDecl(x.ty)), x)
RT_make_owned(x) ==
    IF x.ty \in BaseTypes THEN Basic_make_owned(x)
    ELSE EvalBody(gen_impl("MakeOwned", TestDecl(x.ty)), x)

\* ------------------------------------------------------------------ state
RTStart ==
    \E x \in BaseValues \cup UNION {StructValues(name) : name \in TestStructs} :
        rt = [step |-> "value", x |-> x]

\* let view = x.shallow_clone();
RT_ShallowClone ==
    /\ rt.step = "value"
    /\ rt' = [step |-> "view", x |-> rt.x, view |-> RT_shallow_clone(rt.x)]
    /\ UNCHANGED <<cowVars, deriveVars>>

\* let owned = view.make_owned();
RT_MakeOwned ==
    /\ rt.step = "view"
    /\ rt' = [step |-> "owned", x |-> rt.x, view |-> rt.view, owned |-> RT_make_owned(rt.view)]
    /\ UNCHANGED <<cowVars, deriveVars>>

RTNext == RT_ShallowClone \/ RT_MakeOwned

RTInit == CowInit /\ DeriveIdle /\ RTStart
RoundTripSpec == RTInit /\ [][RTNext]_vars

\* ================================================================== claims, Parts II and III
\* The marker tag of a derive, and the parameters its markers exclude.
MarkerTag(dt) == IF dt = "ShallowClone" THEN "shallowclone" ELSE "makeowned"
SkipMarker(dt) == [path |-> MarkerTag(dt), meta |-> "List", args |-> <<"skip">>]
Excluded(p, dt) == \E i \in 1..Len(p.attrs) : p.attrs[i] = SkipMarker(dt)
ConstParams == {i \in 1..Len(decl.params) : decl.params[i].pk = "Const"}

\* C5: a value of a base type or of a derived struct of base types, shallow
\* cloned and then made owned, comes back with the same type and the same
\* content: every field, in the order of the declaration, has its original name
\* and bytes.
C5_RoundTripByContent ==
    rt.step = "owned" =>
        /\ rt.owned.ty = rt.x.ty
        /\ rt.x.ty \in BaseTypes => rt.owned.v = rt.x.v
        /\ rt.x.ty \in TestStructs =>
            /\ rt.owned.style = rt.x.style
            /\ Len(rt.owned.fields) = Len(rt.x.fields)
            /\ \A i \in 1..Len(rt.x.fields) :
                /\ rt.owned.fields[i].name = rt.x.fields[i].name
                /\ rt.owned.fields[i].val = rt.x.fields[i].val

\* TupleStruct(65535, 0, "ab") has made the round trip.
C5_Witness ==
    /\ rt.step = "owned"
    /\ rt.x.ty = "TupleStruct"
    /\ rt.x.fields[1].val.v = <<255, 255>>
    /\ rt.x.fields[2].val.v = <<0, 0, 0, 0>>
    /\ rt.x.fields[3].val.v = <<97, 98>>

\* C7: the target type is Name<G1, .., Gn> with one argument per generic
\* parameter of the declaration, in its order; the argument of an excluded
\* lifetime or type parameter is the parameter itself, that of another lifetime
\* is 'shallowclone under ShallowClone and 'static under MakeOwned, that of
\* another type parameter T is <T as ShallowClone<'shallowclone>>::Target under
\* ShallowClone and <T as MakeOwned>::Owned under MakeOwned.
C7_TargetType ==
    gen.ran =>
        /\ Len(gen.target_args) = Len(decl.params)
        /\ gen.target_type = <<decl.ident, "<">> \o Join(gen.target_args, ",") \o <<">">>
        /\ \A i \in 1..Len(decl.params) :
            LET p == decl.params[i]
                arg == gen.target_args[i]
            IN  /\ p.pk # "Const" /\ Excluded(p, invoked) => arg = <<p.name>>
                /\ p.pk = "Lifetime" /\ ~Excluded(p, invoked) =>
                    arg = IF invoked = "ShallowClone" THEN <<"'shallowclone">> ELSE <<"'static">>
                /\ p.pk = "Type" /\ ~Excluded(p, invoked) =>
                    arg = IF invoked = "ShallowClone"
                          THEN <<"<", p.name, "as", "ShallowClone", "<", "'shallowclone", ">",
                                 ">", "::", "Target">>
                          ELSE <<"<", p.name, "as", "MakeOwned", ">", "::", "Owned">>

\* MakeOwned derived for Item<'a, #[makeowned(skip)] T>.
C7_Witness ==
    /\ gen.ran /\ invoked = "MakeOwned"
    /\ Len(decl.params) = 2
    /\ decl.params[1].pk = "Lifetime" /\ ~Excluded(decl.params[1], invoked)
    /\ decl.params[2].pk = "Type" /\ Excluded(decl.params[2], invoked)

\* C8: for a declaration with const generic parameters, under both derives,
\* generation runs to completion, and every const parameter stands at its
\* position in the parameter list of the implementation and in the arguments of
\* the target type as it was declared, with no bound added that names it.
C8_ConstPassThrough ==
    gen.ran /\ ConstParams # {} =>
        /\ pc = "done"
        /\ \A i \in ConstParams :
            LET p == decl.params[i] IN
                /\ gen.impl_generics[i] = <<"const", p.name, ":", p.ty>>
                /\ gen.target_args[i] = ConstParamTokens(p)
                /\ \A j \in 1..Len(gen.extra_bounds) : gen.extra_bounds[j][1] # p.name

\* C9: generation is aborted with "const generics cannot be skipped" exactly
\* when a const generic parameter carries a marker; a const parameter without
\* one never causes the abort.
C9_AbortOnlyForMarkedConst ==
    gen.ran =>
        LET marked == \E i \in ConstParams : \E j \in 1..Len(decl.params[i].attrs) :
                        decl.params[i].attrs[j].path \in {"shallowclone", "makeowned"}
            raised == \E j \in 1..Len(diags) : diags[j].msg = "const generics cannot be skipped"
        IN  /\ raised <=> marked
            /\ pc = "aborted" <=> marked

\* What is_generic_skipped reported, by the attribute it was reported on.
Reported(p, ds) ==
    [j \in 1..Len(ds) |-> [msg |-> ds[j].msg, span |-> ds[j].span, on |-> p.attrs[ds[j].attr]]]
\* The parameter without the markers of the other derive.
OwnMarkersOnly(p, dt) ==
    [p EXCEPT !.attrs = SelectSeq(@, LAMBDA attr : attr.path = MarkerTag(dt))]

OneUnknownMarker(p, dt) ==
    /\ p.pk # "Const"
    /\ Len(p.attrs) = 1
    /\ p.attrs[1].path = MarkerTag(dt) /\ p.attrs[1].meta = "List"
    /\ Len(p.attrs[1].args) = 1 /\ p.attrs[1].args[1] \notin NonIdents \cup {"skip"}
DiagsOn(p) == {j \in 1..Len(diags) : diags[j].param = p.name /\ diags[j].msg = "Unknown attribute"}

\* C11: when a generic parameter carries one marker of the derive whose argument
\* is an identifier other than skip, the derive reports exactly one "Unknown
\* attribute" diagnostic for it, the parameter gets the target argument of a
\* parameter that is not excluded, and the derive is not aborted.
C11_OneUnknownAttributeDiagnostic ==
    gen.ran =>
        \A i \in 1..Len(decl.params) :
            LET p == decl.params[i] IN
                OneUnknownMarker(p, invoked) =>
                    /\ Cardinality(DiagsOn(p)) = 1
                    /\ gen.target_args[i] = TargetArg(p, invoked, FALSE)
                    /\ ConstParams = {} => pc # "aborted"

\* A parameter as the implementation has to declare it again, and the
\* constraints the assembly has to add for it.
Redeclared(p) ==
    IF p.pk = "Const" THEN <<"const", p.name, ":", p.ty>> ELSE <<p.name, ":">> \o p.bounds
ExtraFor(p, dt) ==
    CASE p.pk = "Const" -> <<>>
      [] p.pk = "Lifetime" ->
            IF ~Excluded(p, dt) /\ dt = "ShallowClone"
            THEN << <<p.name, ":", "'shallowclone">> >> ELSE <<>>
      [] p.pk = "Type" /\ Excluded(p, dt) ->
            IF dt = "MakeOwned" THEN << <<p.name, ":", "'static">> >> ELSE <<>>
      [] p.pk = "Type" /\ ~Excluded(p, dt) ->
            IF dt = "ShallowClone"
            THEN << <<p.name, ":", "ShallowClone", "<", "'shallowclone", ">">> >>
            ELSE << <<p.name, ":", "MakeOwned">>,
                    <<"<", p.name, "as", "MakeOwned", ">", "::", "Owned", ":">> \o p.bounds >>
RECURSIVE ExtraForAll(_, _)
ExtraForAll(ps, dt) ==
    IF ps = <<>> THEN <<>> ELSE ExtraFor(ps[1], dt) \o ExtraForAll(Tail(ps), dt)
\* for<'any> Name<..>: Clone, with 'any for every lifetime of the declaration.
CloneForAnyLifetime ==
    <<"for", "<", "'any", ">", decl.ident, "<">>
    \o Join([i \in 1..Len(decl.params) |->
                <<IF decl.params[i].pk = "Lifetime" THEN "'any" ELSE decl.params[i].name>>], ",")
    \o <<">", ":", "Clone">>
Assembled ==
    /\ Len(gen.impl_generics) = Len(decl.params)
    /\ \A i \in 1..Len(decl.params) : gen.impl_generics[i] = Redeclared(decl.params[i])
    /\ gen.extra_bounds =
            ExtraForAll(decl.params, invoked)
            \o (IF invoked = "MakeOwned" THEN <<CloneForAnyLifetime>> ELSE <<>>)

\* C12: for every declaration, the implementation declares every parameter
\* again, in order and with its bounds, and the added constraints are exactly
\* those of the parameters (by kind of parameter, exclusion and derive) followed,
\* under MakeOwned only, by the one for<'any> .. : Clone constraint.
C12_GenericsAndBounds == gen.ran => Assembled

\* The same for the declarations without a const parameter.
Assembled_WithoutConst == gen.ran /\ ConstParams = {} => Assembled

\* The method a derive calls on every field, and how it reaches a field of self.
MethodOf(dt) ==
    IF dt = "ShallowClone" THEN <<"ShallowClone", "::", "shallow_clone">>
    ELSE <<"MakeOwned", "::", "make_owned">>
SelfField(dt, member) ==
    (IF dt = "ShallowClone" THEN <<"&">> ELSE <<>>) \o <<"self", ".", member>>
\* The body a struct has to get: the container around one expression per field.
StructFieldExpr(dt, fields, i) ==
    IF fields.style = "Named"
    THEN <<fields.list[i].ident, ":">> \o MethodOf(dt)
         \o <<"(">> \o SelfField(dt, fields.list[i].ident) \o <<")">>
    ELSE MethodOf(dt) \o <<"(">> \o SelfField(dt, ToString(i - 1)) \o <<")">>
StructBody(dt, d) ==
    LET fields == d.data.fields
        exprs == Join([i \in 1..Len(fields.list) |-> StructFieldExpr(dt, fields, i)], ",")
    IN CASE fields.style = "Named" -> <<d.ident, "{">> \o exprs \o <<"}">>
         [] fields.style = "Unnamed" -> <<d.ident, "(">> \o exprs \o <<")">>
         [] fields.style = "Unit" -> <<d.ident>>

\* C13: the body generated for a struct of N fields is the container around
\* exactly N field expressions in the order of the declaration, the i-th calling
\* the derive's method on the i-th field of self, by reference under
\* ShallowClone and by value under MakeOwned, under the field's name or at its
\* position; without fields it is the container alone.
C13_StructBody ==
    decl.data.k = "Struct" =>
        /\ \A dt \in DeriveTypes :
            LET body == gen_impl(dt, decl) IN
                /\ ~body.panic
                /\ Len(body.inner) = Len(decl.data.fields.list)
                /\ body.tokens = StructBody(dt, decl)
        /\ pc = "done" => gen.impl_code = StructBody(invoked, decl)

\* ShallowClone derived for a struct of two positional fields.
C13_Witness ==
    /\ pc = "done" /\ invoked = "ShallowClone"
    /\ decl.data.k = "Struct" /\ decl.data.fields.style = "Unnamed"
    /\ Len(decl.data.fields.list) = 2

\* The arm a variant has to get: every field bound, by its name or as f<i>, and
\* the variant of the same name built from the method called on the bindings.
Binding(fields, i) ==
    IF fields.style = "Named" THEN fields.list[i].ident ELSE "f" \o ToString(i - 1)
ArmFieldExpr(dt, fields, i) ==
    (IF fields.style = "Named" THEN <<fields.list[i].ident, ":">> ELSE <<>>)
    \o MethodOf(dt) \o <<"(", Binding(fields, i), ")">>
Arm(dt, d, v) ==
    LET n == Len(v.fields.list)
        pat == Join([i \in 1..n |-> <<Binding(v.fields, i)>>], ",")
        exprs == Join([i \in 1..n |-> ArmFieldExpr(dt, v.fields, i)], ",")
    IN CASE v.fields.style = "Named" ->
                <<"Self", "::", v.ident, "{">> \o pat
                \o <<"}", "=>", d.ident, "::", v.ident, "{">> \o exprs \o <<"}">>
         [] v.fields.style = "Unnamed" ->
                <<"Self", "::", v.ident, "(">> \o pat
                \o <<")", "=>", d.ident, "::", v.ident, "(">> \o exprs \o <<")">>
         [] v.fields.style = "Unit" ->
                <<"Self", "::", v.ident, "=>", d.ident, "::", v.ident>>
EnumBody(dt, d) ==
    <<"match", "self", "{">>
    \o Join([j \in 1..Len(d.data.variants) |-> Arm(dt, d, d.data.variants[j])], ",")
    \o <<"}">>

\* C14: the body generated for an enum of V variants is one match on self with
\* exactly V arms in the order of the declaration and no wildcard arm; the arm
\* of a variant binds every field, a named one by its name and the i-th
\* positional one as f<i>, and builds the variant of the same name from the
\* derive's method called on the i-th binding at the i-th position or under the
\* same name.
C14_EnumBody ==
    decl.data.k = "Enum" =>
        /\ \A dt \in DeriveTypes :
            LET body == gen_impl(dt, decl) IN
                /\ ~body.panic
                /\ Len(body.arms) = Len(decl.data.variants)
                /\ \A j \in 1..Len(body.arms) :
                    /\ body.arms[j].variant = decl.data.variants[j].ident
                    /\ Len(body.arms[j].pat) = Len(decl.data.variants[j].fields.list)
                    /\ body.arms[j].tokens = Arm(dt, decl, decl.data.variants[j])
                /\ body.tokens = EnumBody(dt, decl)
                /\ \A t \in 1..Len(body.tokens) : body.tokens[t] # "_"
        /\ pc = "done" => gen.impl_code = EnumBody(invoked, decl)

\* MakeOwned derived for an enum whose second variant has a positional field.
C14_Witness ==
    /\ pc = "done" /\ invoked = "MakeOwned"
    /\ decl.data.k = "Enum" /\ Len(decl.data.variants) = 2
    /\ decl.data.variants[2].fields.style = "Unnamed"
    /\ Len(decl.data.variants[2].fields.list) = 1

\* A marker of the derive that is not the list form with the single argument skip.
Malformed(attr, dt) == attr.path = MarkerTag(dt) /\ attr # SkipMarker(dt)

\* C15: in one derive over a declaration, every malformed marker of the derive
\* on a lifetime or type parameter gets an "Unknown attribute" diagnostic,
\* whatever markers stand before it on the parameter (a valid skip included) and
\* whatever other parameters the declaration has.
C15_EveryMalformedMarkerReported ==
    gen.ran =>
        \A i \in 1..Len(decl.params) :
            LET p == decl.params[i] IN
                p.pk # "Const" =>
                    \A j \in 1..Len(p.attrs) :
                        Malformed(p.attrs[j], invoked) =>
                            \E k \in 1..Len(diags) :
                                /\ diags[k].msg = "Unknown attribute"
                                /\ diags[k].param = p.name
                                /\ diags[k].attr = j

\* C16: a derive on a union ends in a fatal error, under both derives, and
\* returns nothing, neither an implementation nor a part of one; the derive on a
\* struct or an enum never ends in that error.
C16_UnionRejected ==
    /\ \A dt \in DeriveTypes : gen_impl(dt, decl).panic <=> decl.data.k = "Union"
    /\ gen.ran =>
        /\ decl.data.k = "Union" =>
            /\ pc \in {"panicked", "aborted"}
            /\ ConstParams = {} => pc = "panicked"
            /\ gen.output = <<>> /\ gen.impl_code = <<>>
        /\ decl.data.k # "Union" => pc # "panicked"

\* MakeOwned derived for a union with a field.
C16_Witness ==
    /\ pc = "panicked" /\ invoked = "MakeOwned"
    /\ decl.data.k = "Union" /\ Len(decl.data.fields.list) = 1

\* The constraints the clause of the implementation has to list: the predicates
\* of the declaration's where clause, then the added ones.
Constraints == decl.where.preds \o gen.extra_bounds

\* C17: the constraint clause of a generated implementation is where followed
\* by every predicate of the declaration's where clause as written and then
\* every added constraint, with a comma between every two of them (one may
\* follow the last); this when the declaration's clause has predicates, ending
\* with a comma or not, and when it has no clause.
C17_WhereClauseWellFormed ==
    pc = "done" /\ (decl.where.present => decl.where.preds # <<>>) =>
        \/ gen.where_clause = <<"where">> \o Join(Constraints, ",")
        \/ gen.where_clause = <<"where">> \o Join(Constraints, ",") \o <<",">>
        \/ Constraints = <<>> /\ gen.where_clause = <<>>

====
